---------------------------- MODULE Spec2Model ----------------------------
(***************************************************************************)
(* A model of snake.py: the Game object (reset, _spawn_food, step,         *)
(* change_direction) and the loop of run() that drives it from the         *)
(* keyboard and the clock.                                                 *)
(*                                                                         *)
(* The program plays on a 30 x 20 grid and wins at 10 foods.  The model    *)
(* keeps every expression of the program in terms of GRID_WIDTH,           *)
(* GRID_HEIGHT and WINNING_SCORE.  Under Spec and SpecApi these are the    *)
(* sizes of a smaller grid and a smaller winning score, so that every      *)
(* snake shape, every food cell and every key interleaving of that grid    *)
(* is enumerated; under SpecFeed, the run in which the food always lies    *)
(* ahead of a snake that never turns, they are the sizes of the program.   *)
(* The variable scale, which no action changes, says which.                *)
(*                                                                         *)
(* Time is counted in units of 0.06 s, so that TICK (0.12 s) is 2.  The    *)
(* loop only ever uses the difference now - last_time, which the model     *)
(* keeps in the variable elapsed, saturated just above TICK.               *)
(*                                                                         *)
(* Two variables record history: flag_calls counts the calls of            *)
(* load_flag() since the latest reset(), and step_dir is the direction     *)
(* the Game had when its latest step() or reset() returned.  The field     *)
(* _direction_history is assigned by reset() and never read: it is left    *)
(* out.  _spawn_food is modelled by the cells its loop can return; with    *)
(* no free cell it returns nothing and the calling action is disabled.     *)
(* SpecSpawn lays that loop open, one draw at a time, to state that it     *)
(* returns under fair draws.                                               *)
(***************************************************************************)
EXTENDS Integers, Sequences, FiniteSets

\* snake.py:17-19: the winning score and the grid of the program.
ProgramWinningScore == 10
ProgramWidth == 30
ProgramHeight == 20

\* The winning score and the grid of the exhaustive exploration.
SmallWinningScore == 4
SmallWidth == 3
SmallHeight == 2

\* snake.py:20, TICK = 0.12 s, in units of 0.06 s.
TICK == 2

\* The largest advance of the clock between two readings of time.time().
MaxDt == 3

VARIABLES
    game,        \* the Game object (a record), or NoGame before Game(stdscr)
    pc,          \* the position of run()
    max_x,       \* columns of the terminal, stdscr.getmaxyx()
    max_y,       \* rows of the terminal
    elapsed,     \* now - last_time at the latest reading of the clock
    flag_calls,  \* number of calls of load_flag() since the latest reset()
    step_dir,    \* game.direction when the latest step() or reset() returned
    scale        \* "program" or "small": the sizes in force

vars == <<game, pc, max_x, max_y, scale, elapsed, flag_calls, step_dir>>

WINNING_SCORE == IF scale = "program" THEN ProgramWinningScore ELSE SmallWinningScore
GRID_WIDTH == IF scale = "program" THEN ProgramWidth ELSE SmallWidth
GRID_HEIGHT == IF scale = "program" THEN ProgramHeight ELSE SmallHeight

---------------------------------------------------------------------------
\* Values

NoGame == [none |-> TRUE]

Grid == (0 .. GRID_WIDTH - 1) \X (0 .. GRID_HEIGHT - 1)

RIGHT == <<1, 0>>
LEFT == <<-1, 0>>
UP == <<0, -1>>
DOWN == <<0, 1>>
Directions == {UP, DOWN, LEFT, RIGHT}

\* p in self.snake
InSnake(p, snake) == \E i \in 1 .. Len(snake) : snake[i] = p

\* The values getch() can return: -1 (NONE), the keys the loop names and
\* one key it does not name.
DirKeys == {"KEY_UP", "w", "W", "KEY_DOWN", "s", "S",
            "KEY_LEFT", "a", "A", "KEY_RIGHT", "d", "D"}
Keys == DirKeys \cup {"q", "Q", "r", "R", "x", "NONE"}

\* The direction a key of the input phase stands for.
KeyDirection(c) ==
    IF c \in {"KEY_UP", "w", "W"} THEN UP
    ELSE IF c \in {"KEY_DOWN", "s", "S"} THEN DOWN
    ELSE IF c \in {"KEY_LEFT", "a", "A"} THEN LEFT
    ELSE RIGHT

---------------------------------------------------------------------------
\* Game

\* _spawn_food without the test of line 56.
SpawnFoodAnywhere(snake) == Grid

\* _spawn_food: the cells the rejection loop can return.
SpawnFood(snake) == {p \in Grid : ~InSnake(p, snake)}

\* reset that leaves self.direction as it is.
ResetKeepsDirection(g) ==
    LET s == << <<GRID_WIDTH \div 2, GRID_HEIGHT \div 2>> >>
    IN  {[snake |-> s, direction |-> IF g = NoGame THEN RIGHT ELSE g.direction,
          score |-> 0, food |-> p,
          game_over |-> FALSE, victory |-> FALSE] : p \in SpawnFood(s)}

\* reset: the Game objects it can produce from g (NoGame in __init__).
Reset(g) ==
    LET s == << <<GRID_WIDTH \div 2, GRID_HEIGHT \div 2>> >>
    IN  {[snake |-> s, direction |-> RIGHT, score |-> 0, food |-> p,
          game_over |-> FALSE, victory |-> FALSE] : p \in SpawnFood(s)}

NewHead(g) == <<g.snake[1][1] + g.direction[1], g.snake[1][2] + g.direction[2]>>

\* The wall test of line 64 with > for >=.
HitsWallOffByOne(p) == p[1] < 0 \/ p[1] > GRID_WIDTH \/ p[2] < 0 \/ p[2] > GRID_HEIGHT

\* line 64: collision with walls
HitsWall(p) == p[1] < 0 \/ p[1] >= GRID_WIDTH \/ p[2] < 0 \/ p[2] >= GRID_HEIGHT

\* step() without the pop() of line 83.
PopNothing(s) == s

\* pop(0) for pop(): the first element goes, not the last.
PopFirst(s) == SubSeq(s, 2, Len(s))

\* self.snake.pop()
Pop(s) == SubSeq(s, 1, Len(s) - 1)

\* step() without the self test of line 68.
HitsSelfNever(p, snake) == FALSE

\* The self test of line 68 sparing the last segment, which a move vacates.
HitsSelfButTail(p, snake) == InSnake(p, Pop(snake))

\* line 68: collision with self
HitsSelf(p, snake) == InSnake(p, snake)

\* The test of line 77 with > for >=.
WinsStrictly(score) == score > WINNING_SCORE

\* line 77: self.score >= WINNING_SCORE
Wins(score) == score >= WINNING_SCORE

\* step: the Game objects it can produce from g.
Step(g) ==
    LET new_head == NewHead(g)
        grown == <<new_head>> \o g.snake
    IN  IF HitsWall(new_head) THEN {[g EXCEPT !.game_over = TRUE]}
        ELSE IF HitsSelf(new_head, g.snake) THEN {[g EXCEPT !.game_over = TRUE]}
        ELSE IF new_head = g.food
             THEN IF Wins(g.score + 1)
                  THEN {[g EXCEPT !.snake = grown, !.score = g.score + 1,
                                  !.victory = TRUE]}
                  ELSE {[g EXCEPT !.snake = grown, !.score = g.score + 1,
                                  !.food = p] : p \in SpawnFood(grown)}
             ELSE {[g EXCEPT !.snake = Pop(grown)]}

\* change_direction negating only the first component of new_dir.
ChangeDirectionHalfNegated(g, new_dir) ==
    IF <<new_dir[1] * (-1), new_dir[2]>> = g.direction
    THEN g
    ELSE [g EXCEPT !.direction = new_dir]

\* change_direction
ChangeDirection(g, new_dir) ==
    IF <<new_dir[1] * (-1), new_dir[2] * (-1)>> = g.direction
    THEN g
    ELSE [g EXCEPT !.direction = new_dir]

---------------------------------------------------------------------------
\* run

needed_x == GRID_WIDTH + 4
needed_y == GRID_HEIGHT + 6

Min(a, b) == IF a < b THEN a ELSE b

Init ==
    /\ scale = "small"
    /\ game = NoGame
    /\ pc = "start"
    /\ max_x \in {needed_x - 1, needed_x}
    /\ max_y \in {needed_y - 1, needed_y}
    /\ elapsed = 0
    /\ flag_calls = 0
    /\ step_dir = RIGHT

\* lines 121-129: the terminal is too small, the notice is shown.
TooSmall ==
    /\ pc = "start"
    /\ (max_x < needed_x \/ max_y < needed_y)
    /\ pc' = "too_small"
    /\ UNCHANGED <<game, max_x, max_y, scale, elapsed, flag_calls, step_dir>>

\* lines 130-131: where run() goes when the getch() of the notice returns
\* c: it returns, whatever c is.
TooSmallNotice(c) == "done"

\* lines 130-131: getch(), which under the nodelay(True) of line 118
\* returns at once, -1 (NONE) when no key is waiting; then return.
TooSmallGetch ==
    /\ pc = "too_small"
    /\ \E c \in Keys : pc' = TooSmallNotice(c)
    /\ UNCHANGED <<game, max_x, max_y, scale, elapsed, flag_calls, step_dir>>

\* lines 133-135: Game(stdscr), last_time = time.time().
Create ==
    /\ pc = "start"
    /\ ~(max_x < needed_x \/ max_y < needed_y)
    /\ game' \in Reset(game)
    /\ step_dir' = game'.direction
    /\ elapsed' = 0
    /\ pc' = "input"
    /\ UNCHANGED <<max_x, max_y, scale, flag_calls>>

\* The input phase with line 140 naming ord('q') alone.
InputPhaseLowerQ(g, c) ==
    IF c = "q"
    THEN [games |-> {g}, reset |-> FALSE, pc |-> "done"]
    ELSE IF c \in DirKeys
    THEN [games |-> {ChangeDirection(g, KeyDirection(c))}, reset |-> FALSE,
          pc |-> "tick"]
    ELSE IF c = "r" /\ (g.game_over \/ g.victory)
    THEN [games |-> Reset(g), reset |-> TRUE, pc |-> "tick"]
    ELSE [games |-> {g}, reset |-> FALSE, pc |-> "tick"]

\* The input phase with line 150 without its test of game_over and victory.
InputPhaseResetAnytime(g, c) ==
    IF c \in {"q", "Q"}
    THEN [games |-> {g}, reset |-> FALSE, pc |-> "done"]
    ELSE IF c \in DirKeys
    THEN [games |-> {ChangeDirection(g, KeyDirection(c))}, reset |-> FALSE,
          pc |-> "tick"]
    ELSE IF c = "r"
    THEN [games |-> Reset(g), reset |-> TRUE, pc |-> "tick"]
    ELSE [games |-> {g}, reset |-> FALSE, pc |-> "tick"]

\* lines 138-151: what the input phase does with the Game g on key c: the
\* Game objects it can leave, whether reset() ran, and where run() goes.
InputPhase(g, c) ==
    IF c \in {"q", "Q"}
    THEN [games |-> {g}, reset |-> FALSE, pc |-> "done"]
    ELSE IF c \in DirKeys
    THEN [games |-> {ChangeDirection(g, KeyDirection(c))}, reset |-> FALSE,
          pc |-> "tick"]
    ELSE IF c = "r" /\ (g.game_over \/ g.victory)
    THEN [games |-> Reset(g), reset |-> TRUE, pc |-> "tick"]
    ELSE [games |-> {g}, reset |-> FALSE, pc |-> "tick"]

\* The input phase on key c.
InputKey(c) ==
    /\ pc = "input"
    /\ game' \in InputPhase(game, c).games
    /\ pc' = InputPhase(game, c).pc
    /\ step_dir' = IF InputPhase(game, c).reset THEN game'.direction ELSE step_dir
    /\ flag_calls' = IF InputPhase(game, c).reset THEN 0 ELSE flag_calls
    /\ UNCHANGED <<max_x, max_y, scale, elapsed>>

\* lines 140-141: q or Q leaves the loop.
InputQuit ==
    /\ pc = "input"
    /\ \E c \in {"q", "Q"} : InputKey(c)

\* lines 150-151: r after the game is over.
InputRestart ==
    /\ pc = "input"
    /\ (game.game_over \/ game.victory)
    /\ InputKey("r")

\* lines 142-149 and the keys that do nothing, no key among them.
Input ==
    /\ pc = "input"
    /\ \E c \in Keys \ {"q", "Q"} :
          /\ ~(c = "r" /\ (game.game_over \/ game.victory))
          /\ InputKey(c)

\* The test of line 155 without its test of game_over and victory.
TickDueWhenOver(since, g) == since >= TICK

\* The test of line 155 with > for >=.
TickDueLate(since, g) == since > TICK /\ ~(g.game_over \/ g.victory)

\* line 155, with since = now - last_time.
TickDue(since, g) == since >= TICK /\ ~(g.game_over \/ g.victory)

\* lines 154-157 when the condition holds: step(), last_time = now.
TickStep ==
    /\ pc = "tick"
    /\ \E dt \in 0 .. MaxDt :
          /\ TickDue(Min(elapsed + dt, TICK + 1), game)
          /\ game' \in Step(game)
          /\ elapsed' = 0
    /\ step_dir' = game'.direction
    /\ pc' = "draw"
    /\ UNCHANGED <<max_x, max_y, scale, flag_calls>>

\* lines 154-157 when the condition fails.
TickSkip ==
    /\ pc = "tick"
    /\ \E dt \in 0 .. MaxDt :
          /\ ~TickDue(Min(elapsed + dt, TICK + 1), game)
          /\ elapsed' = Min(elapsed + dt, TICK + 1)
    /\ pc' = "draw"
    /\ UNCHANGED <<game, max_x, max_y, scale, flag_calls, step_dir>>

\* lines 160-166 and the fall through of 168: draw, back to the input phase.
Draw ==
    /\ pc = "draw"
    /\ (game.game_over \/ ~game.victory)
    /\ pc' = "input"
    /\ UNCHANGED <<game, max_x, max_y, scale, elapsed, flag_calls, step_dir>>

\* lines 160, 168-174: draw, load_flag(), the victory screen.
DrawVictory ==
    /\ pc = "draw"
    /\ ~game.game_over
    /\ game.victory
    /\ flag_calls' = flag_calls + 1
    /\ pc' = "victory_wait"
    /\ UNCHANGED <<game, max_x, max_y, scale, elapsed, step_dir>>

\* lines 176-183: what the victory screen does with the Game g on key k.
VictoryWait(g, k) ==
    IF k \in {"q", "Q"}
    THEN [games |-> {g}, reset |-> FALSE, pc |-> "done"]
    ELSE IF k \in {"r", "R"}
    THEN [games |-> Reset(g), reset |-> TRUE, pc |-> "input"]
    ELSE [games |-> {g}, reset |-> FALSE, pc |-> "victory_wait"]

\* The victory screen on key k.
VictoryKey(k) ==
    /\ pc = "victory_wait"
    /\ game' \in VictoryWait(game, k).games
    /\ pc' = VictoryWait(game, k).pc
    /\ step_dir' = IF VictoryWait(game, k).reset THEN game'.direction ELSE step_dir
    /\ flag_calls' = IF VictoryWait(game, k).reset THEN 0 ELSE flag_calls
    /\ UNCHANGED <<max_x, max_y, scale, elapsed>>

\* lines 178-179: q or Q on the victory screen.
VictoryQuit ==
    /\ pc = "victory_wait"
    /\ \E k \in {"q", "Q"} : VictoryKey(k)

\* lines 180-182: r or R on the victory screen.
VictoryRestart ==
    /\ pc = "victory_wait"
    /\ \E k \in {"r", "R"} : VictoryKey(k)

\* The victory screen calling load_flag() again at every poll.
VictoryIdleLoadsFlag ==
    /\ pc = "victory_wait"
    /\ flag_calls' = flag_calls + 1
    /\ UNCHANGED <<game, pc, max_x, max_y, scale, elapsed, step_dir>>

\* line 183: any other key, or no key: sleep and poll again.
VictoryIdle ==
    /\ pc = "victory_wait"
    /\ \E k \in Keys \ {"q", "Q", "r", "R"} : VictoryKey(k)

Next ==
    \/ TooSmall
    \/ TooSmallGetch
    \/ Create
    \/ InputQuit
    \/ InputRestart
    \/ Input
    \/ TickStep
    \/ TickSkip
    \/ Draw
    \/ DrawVictory
    \/ VictoryQuit
    \/ VictoryRestart
    \/ VictoryIdle

Spec == Init /\ [][Next]_vars

---------------------------------------------------------------------------
\* The Game object driven method by method, as a caller other than run()
\* can drive it: any of reset(), step() and change_direction(d) in any
\* state of the Game.

InitApi ==
    /\ scale = "small"
    /\ game \in Reset(NoGame)
    /\ pc = "api"
    /\ max_x = needed_x
    /\ max_y = needed_y
    /\ elapsed = 0
    /\ flag_calls = 0
    /\ step_dir = RIGHT

ApiReset ==
    /\ game' \in Reset(game)
    /\ step_dir' = game'.direction
    /\ UNCHANGED <<pc, max_x, max_y, scale, elapsed, flag_calls>>

ApiStep ==
    /\ game' \in Step(game)
    /\ step_dir' = game'.direction
    /\ UNCHANGED <<pc, max_x, max_y, scale, elapsed, flag_calls>>

ApiChangeDirection ==
    /\ \E d \in Directions : game' = ChangeDirection(game, d)
    /\ UNCHANGED <<pc, max_x, max_y, scale, elapsed, flag_calls, step_dir>>

NextApi == ApiReset \/ ApiStep \/ ApiChangeDirection

SpecApi == InitApi /\ [][NextApi]_vars

---------------------------------------------------------------------------
\* run() at the sizes of the program, fed: the food lies on the cell ahead
\* of the head at every step, no key turns the snake, and the player quits
\* on the victory screen.  The terminal is large enough, or larger.

FoodAhead(g) == g.food = NewHead(g)

InitFeed ==
    /\ scale = "program"
    /\ game = NoGame
    /\ pc = "start"
    /\ max_x \in {needed_x, needed_x + 1}
    /\ max_y \in {needed_y, needed_y + 1}
    /\ elapsed = 0
    /\ flag_calls = 0
    /\ step_dir = RIGHT

FeedCreate == Create /\ FoodAhead(game')

FeedInput == Input /\ game' = game

FeedTickStep == TickStep /\ (game'.game_over \/ game'.victory \/ FoodAhead(game'))

NextFeed ==
    \/ FeedCreate
    \/ FeedInput
    \/ FeedTickStep
    \/ TickSkip
    \/ Draw
    \/ DrawVictory
    \/ VictoryIdle
    \/ VictoryQuit

SpecFeed == InitFeed /\ [][NextFeed]_vars

---------------------------------------------------------------------------
\* The Game with the loop of _spawn_food laid open, driven as run() drives
\* it: step() while neither flag is set, change_direction() at any time,
\* reset() once a flag is set.  Between the call of _spawn_food and its
\* return pc is "spawn_reset" or "spawn_step", after its caller, and game
\* is the Game as the caller has left it so far.  One turn of the loop
\* draws a cell: a cell of the snake leaves everything as it is, a free
\* cell is returned.  A fair random.randint draws a free cell in the end.

\* lines 45-48: reset() up to its call of _spawn_food; food, game_over and
\* victory are still those of g, or not yet there in __init__.
ResetToSpawn(g) ==
    IF g = NoGame
    THEN [snake |-> << <<GRID_WIDTH \div 2, GRID_HEIGHT \div 2>> >>,
          direction |-> RIGHT, score |-> 0]
    ELSE [g EXCEPT !.snake = << <<GRID_WIDTH \div 2, GRID_HEIGHT \div 2>> >>,
                   !.direction = RIGHT, !.score = 0]

\* lines 49-51: reset() from the return of _spawn_food with p.
ResetFromSpawn(g, p) ==
    [snake |-> g.snake, direction |-> g.direction, score |-> g.score,
     food |-> p, game_over |-> FALSE, victory |-> FALSE]

\* lines 60-79: step() from g reaches its call of _spawn_food at line 80.
StepSpawns(g) ==
    /\ ~HitsWall(NewHead(g))
    /\ ~HitsSelf(NewHead(g), g.snake)
    /\ NewHead(g) = g.food
    /\ ~Wins(g.score + 1)

\* lines 72-76: step() up to its call of _spawn_food.
StepToSpawn(g) ==
    [g EXCEPT !.snake = <<NewHead(g)>> \o g.snake, !.score = g.score + 1]

InitSpawn ==
    /\ scale = "small"
    /\ game = ResetToSpawn(NoGame)
    /\ pc = "spawn_reset"
    /\ max_x = needed_x
    /\ max_y = needed_y
    /\ elapsed = 0
    /\ flag_calls = 0
    /\ step_dir = RIGHT

\* lines 54-56: a turn of the loop that draws a cell of the snake.
SpawnReject ==
    /\ pc \in {"spawn_reset", "spawn_step"}
    /\ \E p \in Grid : p \notin SpawnFood(game.snake)
    /\ UNCHANGED vars

\* lines 54-57: a turn of the loop that draws a free cell and returns it,
\* and the rest of the caller.
SpawnAccept ==
    /\ pc \in {"spawn_reset", "spawn_step"}
    /\ \E p \in SpawnFood(game.snake) :
          game' = IF pc = "spawn_reset"
                  THEN ResetFromSpawn(game, p)
                  ELSE [game EXCEPT !.food = p]
    /\ pc' = "play"
    /\ step_dir' = game'.direction
    /\ UNCHANGED <<max_x, max_y, scale, elapsed, flag_calls>>

\* step() that calls _spawn_food.
SpawnPlayEat ==
    /\ pc = "play"
    /\ ~(game.game_over \/ game.victory)
    /\ StepSpawns(game)
    /\ game' = StepToSpawn(game)
    /\ pc' = "spawn_step"
    /\ UNCHANGED <<max_x, max_y, scale, elapsed, flag_calls, step_dir>>

\* step() that does not call _spawn_food.
SpawnPlayStep ==
    /\ pc = "play"
    /\ ~(game.game_over \/ game.victory)
    /\ ~StepSpawns(game)
    /\ game' \in Step(game)
    /\ step_dir' = game'.direction
    /\ UNCHANGED <<pc, max_x, max_y, scale, elapsed, flag_calls>>

SpawnPlayTurn ==
    /\ pc = "play"
    /\ \E d \in Directions : game' = ChangeDirection(game, d)
    /\ UNCHANGED <<pc, max_x, max_y, scale, elapsed, flag_calls, step_dir>>

\* reset() up to its call of _spawn_food.
SpawnPlayReset ==
    /\ pc = "play"
    /\ (game.game_over \/ game.victory)
    /\ game' = ResetToSpawn(game)
    /\ pc' = "spawn_reset"
    /\ UNCHANGED <<max_x, max_y, scale, elapsed, flag_calls, step_dir>>

NextSpawn ==
    \/ SpawnReject
    \/ SpawnAccept
    \/ SpawnPlayEat
    \/ SpawnPlayStep
    \/ SpawnPlayTurn
    \/ SpawnPlayReset

SpecSpawn == InitSpawn /\ [][NextSpawn]_vars /\ WF_vars(SpawnAccept)

---------------------------------------------------------------------------
\* Claims

Created == game # NoGame

Opposite(d) == <<0 - d[1], 0 - d[2]>>

\* C1 as stated: in every state of the game, after reset() and after every
\* step() (the step that sets victory among them), the food is on no cell
\* of the snake.
C1_FoodNeverOnSnake == Created => ~InSnake(game.food, game.snake)

\* C1, amended: while victory is not set the food is on no cell of the
\* snake; once victory is set the food is the cell of the snake's head,
\* and of no other segment.
C1_FoodOffSnakeUntilVictory ==
    Created =>
        IF game.victory
        THEN /\ game.food = game.snake[1]
             /\ ~InSnake(game.food, Tail(game.snake))
        ELSE ~InSnake(game.food, game.snake)

\* C1 witness: a step has eaten without winning, and food was spawned
\* beside a snake of two cells or more.
C1_Witness ==
    /\ Created
    /\ pc = "draw"
    /\ game.score >= 1
    /\ ~game.victory
    /\ ~game.game_over
    /\ elapsed = 0

\* C2 as stated: the direction a step() uses is never the opposite of the
\* direction in force when the preceding step() (or reset()) returned.
C2_NoReversalBetweenSteps ==
    [][TickStep => game.direction # Opposite(step_dir)]_vars

\* C3: the snake has at least one segment, every segment is in the grid and
\* so is the food.
C3_InGrid ==
    Created =>
        /\ Len(game.snake) >= 1
        /\ \A i \in 1 .. Len(game.snake) :
              /\ 0 <= game.snake[i][1] /\ game.snake[i][1] < GRID_WIDTH
              /\ 0 <= game.snake[i][2] /\ game.snake[i][2] < GRID_HEIGHT
        /\ 0 <= game.food[1] /\ game.food[1] < GRID_WIDTH
        /\ 0 <= game.food[2] /\ game.food[2] < GRID_HEIGHT

\* C3 witness: a step ran the head into a wall and the snake stayed put.
C3_Witness ==
    /\ Created
    /\ pc = "draw"
    /\ game.game_over
    /\ HitsWall(NewHead(game))

\* A step() of the loop that ran into nothing: the head moved.
StepMoves == TickStep /\ ~game'.game_over

\* A step() of the loop that ran into a wall or into the snake.
StepCollides == TickStep /\ game'.game_over

\* C4: victory holds exactly when score = WINNING_SCORE, the score never
\* exceeds WINNING_SCORE, victory is set by the very step() that raises the
\* score to WINNING_SCORE, and that step leaves the food where it was.
C4_VictoryAtWinningScore ==
    /\ [](Created =>
            /\ game.victory <=> game.score = WINNING_SCORE
            /\ game.score <= WINNING_SCORE)
    /\ [][Created /\ Created' /\ game'.victory /\ ~game.victory =>
            /\ TickStep
            /\ game.score = WINNING_SCORE - 1
            /\ game'.score = WINNING_SCORE
            /\ game'.food = game.food]_vars
    /\ [][TickStep /\ game'.score = WINNING_SCORE => game'.victory]_vars

\* C4 witness: the step that won has just returned.
C4_Witness ==
    /\ Created
    /\ pc = "draw"
    /\ game.victory
    /\ game.score = WINNING_SCORE

\* C5: a step() that does not collide and whose new head is the food adds 1
\* to the score and 1 to the length, keeping the tail; one whose new head
\* is not the food leaves score, food and length as they were and drops the
\* last segment.
C5_EatOrMove ==
    [][StepMoves =>
         /\ game'.snake[1] = NewHead(game)
         /\ IF NewHead(game) = game.food
            THEN /\ game'.score = game.score + 1
                 /\ Len(game'.snake) = Len(game.snake) + 1
                 /\ Tail(game'.snake) = game.snake
            ELSE /\ game'.score = game.score
                 /\ game'.food = game.food
                 /\ Len(game'.snake) = Len(game.snake)
                 /\ Tail(game'.snake) = SubSeq(game.snake, 1, Len(game.snake) - 1)]_vars

\* C5 witness: the head is back on the cell the snake started from with
\* food eaten since: the snake has eaten and has moved without eating (a
\* snake that eats at every step keeps its last segment on that cell).
C5_Witness ==
    /\ Created
    /\ pc = "draw"
    /\ ~game.game_over
    /\ game.score >= 1
    /\ game.snake[1] = <<GRID_WIDTH \div 2, GRID_HEIGHT \div 2>>

\* C6: a step() whose new head is outside the grid or on a segment of the
\* snake, the last one included, sets game_over and leaves snake, food,
\* score and direction as they were.
C6_Collision ==
    [][TickStep /\ (HitsWall(NewHead(game)) \/ InSnake(NewHead(game), game.snake)) =>
         /\ game'.game_over
         /\ game'.snake = game.snake
         /\ game'.food = game.food
         /\ game'.score = game.score
         /\ game'.direction = game.direction]_vars

\* C6 witness: the head has run into the cell of the last segment, three
\* cells or more behind it.
C6_Witness ==
    /\ Created
    /\ pc = "draw"
    /\ game.game_over
    /\ Len(game.snake) >= 4
    /\ NewHead(game) = game.snake[Len(game.snake)]

\* C7 as stated: with the game over or won, the key r and the key R each
\* reset the Game and send the loop on playing.
C7_RestartEitherCase ==
    /\ (Created /\ pc = "input" /\ (game.game_over \/ game.victory)) =>
          \A c \in {"r", "R"} :
              /\ InputPhase(game, c).reset
              /\ InputPhase(game, c).pc = "tick"
    /\ pc = "victory_wait" =>
          \A k \in {"r", "R"} :
              /\ VictoryWait(game, k).reset
              /\ VictoryWait(game, k).pc = "input"

\* A transition in which run() executes reset().
ResetRuns == Create \/ InputRestart \/ VictoryRestart

\* C8: reset(), whatever the Game was, leaves score 0, a snake of the one
\* segment (GRID_WIDTH // 2, GRID_HEIGHT // 2), direction (1, 0), game_over
\* and victory false, and the food off the snake.
C8_ResetState ==
    [][ResetRuns =>
         /\ game'.score = 0
         /\ game'.snake = << <<GRID_WIDTH \div 2, GRID_HEIGHT \div 2>> >>
         /\ game'.direction = <<1, 0>>
         /\ game'.game_over = FALSE
         /\ game'.victory = FALSE
         /\ game'.food \in Grid
         /\ game'.food # <<GRID_WIDTH \div 2, GRID_HEIGHT \div 2>>]_vars

\* C8 witness: r on the game-over screen has just reset the Game (only
\* there does the input phase end with a Game that is neither over nor won
\* and a tick interval already elapsed).
C8_Witness ==
    /\ Created
    /\ pc = "tick"
    /\ elapsed >= TICK
    /\ ~game.game_over
    /\ ~game.victory
    /\ game.score = 0

\* C9: load_flag() is called once for each time victory is set, between
\* the draw that follows the step that won and the next reset(), and only
\* with the Game in victory, never running or over.
C9_FlagOncePerVictory ==
    /\ [](flag_calls = IF Created /\ game.victory /\ pc # "draw" THEN 1 ELSE 0)
    /\ [][flag_calls' > flag_calls =>
            /\ Created
            /\ game.victory
            /\ ~game.game_over
            /\ flag_calls' = flag_calls + 1]_vars
    /\ [][Created /\ Created' /\ game'.victory /\ ~game.victory =>
            flag_calls' = 0]_vars

\* C9 witness: the victory screen has shown its flag and polls the keys.
C9_Witness ==
    /\ pc = "victory_wait"
    /\ game.victory
    /\ flag_calls = 1

\* C10 as stated: step() called with game_over or victory set changes none
\* of snake, food, score, direction, game_over, victory.
C10_StepNoOpWhenOver ==
    [][ApiStep /\ (game.game_over \/ game.victory) => game' = game]_vars

\* The Game is neither over nor won.
Running == Created /\ ~game.game_over /\ ~game.victory

\* C11: change_direction(d) leaves the Game as it is when d is the opposite
\* of its direction, and otherwise sets direction to d and nothing else,
\* for each of the four unit directions d.
C11_ChangeDirection ==
    Created =>
        \A d \in {<<0, -1>>, <<0, 1>>, <<-1, 0>>, <<1, 0>>} :
            ChangeDirection(game, d) =
                IF d[1] + game.direction[1] = 0 /\ d[2] + game.direction[2] = 0
                THEN game
                ELSE [snake |-> game.snake, direction |-> d, score |-> game.score,
                      food |-> game.food, game_over |-> game.game_over,
                      victory |-> game.victory]

\* C11 witness: the Game heads left, which from the right it reaches only
\* by way of up or down, and has stepped since.
C11_Witness ==
    /\ Created
    /\ game.direction = LEFT
    /\ step_dir = LEFT
    /\ Len(game.snake) >= 2

C13_Quit ==
    /\ [](Created /\ pc = "input" =>
            \A c \in {"q", "Q"} :
                InputPhase(game, c) = [games |-> {game}, reset |-> FALSE, pc |-> "done"])
    /\ [](pc = "victory_wait" =>
            \A k \in {"q", "Q"} :
                VictoryWait(game, k) = [games |-> {game}, reset |-> FALSE, pc |-> "done"])
    /\ [][pc' = "done" /\ Created => game' = game /\ flag_calls' = flag_calls]_vars
    /\ [][pc = "done" => vars' = vars]_vars

\* C13 witness: run() has returned from the game-over screen.
C13_Witness ==
    /\ Created
    /\ pc = "done"
    /\ game.game_over

\* C15 as stated: with fewer than GRID_WIDTH + 4 columns or fewer than
\* GRID_HEIGHT + 6 rows no Game is created and run() never plays, and it
\* returns once a key has been pressed, not before; otherwise it plays.
C15_TooSmallWaitsForKey ==
    /\ (max_x < GRID_WIDTH + 4 \/ max_y < GRID_HEIGHT + 6) =>
          ~Created /\ pc \in {"start", "too_small", "done"}
    /\ pc = "too_small" =>
          /\ \A c \in Keys \ {"NONE"} : TooSmallNotice(c) = "done"
          /\ TooSmallNotice("NONE") = "too_small"
    /\ (~(max_x < GRID_WIDTH + 4 \/ max_y < GRID_HEIGHT + 6) /\ pc # "start") =>
          Created

\* C16: game_over and victory are never both set; with either set, both
\* flags, the snake, the food and the score stay as they are until a
\* reset(); and the loop runs reset() only with one of them set.
C16_OneWay ==
    /\ [](Created => ~(game.game_over /\ game.victory))
    /\ [][Created /\ (game.game_over \/ game.victory) =>
            \/ /\ game'.game_over = game.game_over
               /\ game'.victory = game.victory
               /\ game'.snake = game.snake
               /\ game'.food = game.food
               /\ game'.score = game.score
            \/ /\ pc \in {"input", "victory_wait"}
               /\ game' \in Reset(game)]_vars
    /\ [](Created /\ pc = "input" =>
            \A c \in Keys :
                InputPhase(game, c).reset => game.game_over \/ game.victory)
    /\ [](pc = "victory_wait" => Created /\ game.victory)

\* C16 witness: on the game-over screen a direction key has been taken
\* since the step that ended the game.
C16_Witness ==
    /\ Created
    /\ pc = "input"
    /\ game.game_over
    /\ game.direction # step_dir

\* C17: with the Game running, the input phase on any key, or on none,
\* leaves snake, food, score, game_over and victory as they are, and on r,
\* R, an unnamed key or no key the direction as well.
C17_InputTouchesDirectionOnly ==
    (Running /\ pc = "input") =>
        \A c \in Keys :
            \A g \in InputPhase(game, c).games :
                /\ g.snake = game.snake
                /\ g.food = game.food
                /\ g.score = game.score
                /\ g.game_over = game.game_over
                /\ g.victory = game.victory
                /\ c \in {"r", "R", "x", "NONE"} => g.direction = game.direction

\* C17 witness: the input phase of a running Game has taken a direction
\* key.
C17_Witness ==
    /\ Running
    /\ pc = "tick"
    /\ game.direction # step_dir

\* C18: the segments of the snake are pairwise distinct.
C18_NoOverlap ==
    Created =>
        \A i \in 1 .. Len(game.snake) :
            \A j \in 1 .. Len(game.snake) :
                i # j => game.snake[i] # game.snake[j]

\* C18 witness: a step() has found its new head inside the grid on a
\* segment of a snake of three cells or more, and has not moved.
C18_Witness ==
    /\ Created
    /\ pc = "draw"
    /\ game.game_over
    /\ Len(game.snake) >= 3
    /\ ~HitsWall(NewHead(game))
    /\ InSnake(NewHead(game), game.snake)

\* C20: the snake has score + 1 segments; with victory set it has
\* WINNING_SCORE + 1, the winning step having kept the tail.
C20_LengthIsScorePlusOne ==
    Created =>
        /\ Len(game.snake) = game.score + 1
        /\ game.victory => Len(game.snake) = WINNING_SCORE + 1

\* C20 witness: the victory screen, with the snake the winning step left.
C20_Witness ==
    /\ pc = "victory_wait"
    /\ game.victory
    /\ Len(game.snake) = WINNING_SCORE + 1

\* C14: from reset(), the snake at the centre heading right, with the food
\* on the cell ahead at each step, every step eats, the tenth sets victory
\* with score 10, game_over is never set, and load_flag() is called once,
\* on the victory screen.
C14_FedRun ==
    /\ [](Created =>
            /\ ~game.game_over
            /\ game.score <= 10
            /\ game.victory <=> game.score = 10
            /\ game.snake[1] = <<15 + game.score, 10>>
            /\ flag_calls = IF pc \in {"victory_wait", "done"} THEN 1 ELSE 0
            /\ pc \in {"victory_wait", "done"} => game.victory)
    /\ [][TickStep => game'.score = game.score + 1]_vars

\* C14 witness: the fed run has ended, won at score 10 with its flag shown.
C14_Witness ==
    /\ Created
    /\ pc = "done"
    /\ game.victory
    /\ game.score = 10
    /\ Len(game.snake) = 11
    /\ flag_calls = 1

\* C19: at every call of _spawn_food, from reset() or from an eating step
\* short of WINNING_SCORE, the snake has at most WINNING_SCORE segments,
\* fewer than the grid has cells, so a cell is free for the loop to
\* return; and, the draws being fair, the loop returns.
C19_SpawnReturns ==
    /\ [](pc \in {"spawn_reset", "spawn_step"} =>
            /\ Len(game.snake) <= WINNING_SCORE
            /\ WINNING_SCORE < GRID_WIDTH * GRID_HEIGHT
            /\ \E p \in Grid : \A i \in 1 .. Len(game.snake) : game.snake[i] # p)
    /\ [][pc = "spawn_reset" /\ pc' = "play" => game' \in Reset(game)]_vars
    /\ [][pc = "spawn_step" /\ pc' = "play" =>
            /\ game'.snake = game.snake
            /\ \A i \in 1 .. Len(game.snake) : game.snake[i] # game'.food]_vars
    /\ (pc \in {"spawn_reset", "spawn_step"}) ~> (pc = "play")

\* C19 witness: an eating step has called _spawn_food with the longest
\* snake it can have there, and the loop has yet to return.
C19_Witness ==
    /\ pc = "spawn_step"
    /\ Len(game.snake) = WINNING_SCORE

=============================================================================
